---- MODULE Spec2Model ----
(***************************************************************************)
(* Model of scripts/validate_openapi.py: the six validation passes over a  *)
(* parsed OpenAPI document, the post-hoc classification of their messages  *)
(* into errors and warnings by substring tests, and the exit status.       *)
(*                                                                         *)
(* Python values are modelled as follows.                                  *)
(*   str   : a TLA+ string (TLC evaluates Len, \o and SubSeq on strings).  *)
(*   dict whose iteration order is observable (paths, schemas,             *)
(*           securitySchemes, responses, content) : a sequence of          *)
(*           <<key, value>> pairs with distinct keys.                      *)
(*   dict that is only probed with `in` / [] / .get : a function whose     *)
(*           DOMAIN is the set of present keys.                            *)
(*   list  : a sequence.                                                   *)
(* Documents are well typed in the sense of the data model and of the      *)
(* functions' Dict annotations: the document and every object in it is a   *)
(* mapping and `openapi` is a string.  main() is modelled from the point   *)
(* where the spec-file argument is present (after the usage check).        *)
(***************************************************************************)
EXTENDS Integers, Sequences, FiniteSets, TLC

VARIABLES
    file,                   \* the input file: whether it parses, and to what
    pc,                     \* position of main()
    spec,                   \* main: spec
    load_errors,            \* main: load_errors
    all_errors,             \* main: all_errors
    all_warnings,           \* main: all_warnings
    structure_errors,       \* main: structure_errors
    path_issues,            \* main: path_issues
    schema_issues,          \* main: schema_issues
    security_issues,        \* main: security_issues
    example_warnings,       \* main: example_warnings
    best_practice_warnings, \* main: best_practice_warnings
    ran,                    \* history: the passes main() has called, in order
    exit_status             \* -1 while running, then the process exit status

vars == <<file, pc, spec, load_errors, all_errors, all_warnings,
          structure_errors, path_issues, schema_issues, security_issues,
          example_warnings, best_practice_warnings, ran, exit_status>>

(***************************************************************************)
(* Python str and list primitives.                                         *)
(***************************************************************************)

\* sub in s
Contains(s, sub) ==
    \E i \in 1..(Len(s) - Len(sub) + 1) : SubSeq(s, i, i + Len(sub) - 1) = sub

\* s.startswith(p)
StartsWith(s, p) == Len(s) >= Len(p) /\ SubSeq(s, 1, Len(p)) = p

\* s.endswith(p)
EndsWith(s, p) == Len(s) >= Len(p) /\ SubSeq(s, Len(s) - Len(p) + 1, Len(s)) = p

LowerChar(c) ==
    CASE c = "A" -> "a" [] c = "B" -> "b" [] c = "C" -> "c" [] c = "D" -> "d"
      [] c = "E" -> "e" [] c = "F" -> "f" [] c = "G" -> "g" [] c = "H" -> "h"
      [] c = "I" -> "i" [] c = "J" -> "j" [] c = "K" -> "k" [] c = "L" -> "l"
      [] c = "M" -> "m" [] c = "N" -> "n" [] c = "O" -> "o" [] c = "P" -> "p"
      [] c = "Q" -> "q" [] c = "R" -> "r" [] c = "S" -> "s" [] c = "T" -> "t"
      [] c = "U" -> "u" [] c = "V" -> "v" [] c = "W" -> "w" [] c = "X" -> "x"
      [] c = "Y" -> "y" [] c = "Z" -> "z" [] OTHER -> c

UpperChar(c) ==
    CASE c = "a" -> "A" [] c = "b" -> "B" [] c = "c" -> "C" [] c = "d" -> "D"
      [] c = "e" -> "E" [] c = "f" -> "F" [] c = "g" -> "G" [] c = "h" -> "H"
      [] c = "i" -> "I" [] c = "j" -> "J" [] c = "k" -> "K" [] c = "l" -> "L"
      [] c = "m" -> "M" [] c = "n" -> "N" [] c = "o" -> "O" [] c = "p" -> "P"
      [] c = "q" -> "Q" [] c = "r" -> "R" [] c = "s" -> "S" [] c = "t" -> "T"
      [] c = "u" -> "U" [] c = "v" -> "V" [] c = "w" -> "W" [] c = "x" -> "X"
      [] c = "y" -> "Y" [] c = "z" -> "Z" [] OTHER -> c

\* s.lower()
RECURSIVE Lower(_)
Lower(s) ==
    IF s = "" THEN ""
    ELSE LowerChar(SubSeq(s, 1, 1)) \o Lower(SubSeq(s, 2, Len(s)))

\* s.upper()
RECURSIVE Upper(_)
Upper(s) ==
    IF s = "" THEN ""
    ELSE UpperChar(SubSeq(s, 1, 1)) \o Upper(SubSeq(s, 2, Len(s)))

\* position of the first occurrence of the character c in s at or after
\* position i, or 0 when there is none
RECURSIVE IndexFrom(_, _, _)
IndexFrom(s, c, i) ==
    IF i > Len(s) THEN 0
    ELSE IF SubSeq(s, i, i) = c THEN i
    ELSE IndexFrom(s, c, i + 1)

\* s.split(sep) for a one-character separator
RECURSIVE Split(_, _)
Split(s, sep) ==
    LET j == IndexFrom(s, sep, 1) IN
    IF j = 0 THEN <<s>>
    ELSE <<SubSeq(s, 1, j - 1)>> \o Split(SubSeq(s, j + 1, Len(s)), sep)

\* e in lst
InList(e, lst) == \E i \in 1..Len(lst) : lst[i] = e

\* the concatenation of the first n sequences of ss
RECURSIVE ConcatUpTo(_, _)
ConcatUpTo(ss, n) == IF n = 0 THEN <<>> ELSE ConcatUpTo(ss, n - 1) \o ss[n]

\* the lists appended inside a for loop, one per iteration, in order
Flatten(ss) == ConcatUpTo(ss, Len(ss))

\* `if c: lst.append(msg)`
AppendIf(c, msg) == IF c THEN <<msg>> ELSE <<>>

\* the empty dict
EmptyDict == [k \in {} |-> k]

\* d.get(k, {}) for a dict whose default is the empty ordered mapping
GetSeq(d, k) == IF k \in DOMAIN d THEN d[k] ELSE <<>>

\* d.get(k, {}) for a dict whose default is the empty dict
GetDict(d, k) == IF k \in DOMAIN d THEN d[k] ELSE EmptyDict

(***************************************************************************)
(* load_spec                                                               *)
(***************************************************************************)

\* load_spec(file_path): (spec, []) when the file parses, ({}, [message])
\* when opening or parsing raises
load_spec(f) ==
    IF f.parses THEN [spec |-> f.doc, errors |-> <<>>]
    ELSE [spec |-> EmptyDict, errors |-> <<"Failed to load spec: " \o f.why>>]

(***************************************************************************)
(* validate_structure                                                      *)
(***************************************************************************)

\* the `openapi` check
OpenapiErrors(s) ==
    IF "openapi" \notin DOMAIN s
        THEN <<"Missing required field: 'openapi'">>
    ELSE IF ~StartsWith(s.openapi, "3.0")
        THEN <<"Unsupported OpenAPI version: " \o s.openapi>>
    ELSE <<>>

\* InfoErrors with the version check made an elif of the title check
InfoErrorsElif(s) ==
    IF "info" \notin DOMAIN s
        THEN <<"Missing required field: 'info'">>
    ELSE IF "title" \notin DOMAIN s.info
        THEN <<"Missing required field: 'info.title'">>
    ELSE AppendIf("version" \notin DOMAIN s.info,
                  "Missing required field: 'info.version'")

\* the `info` check
InfoErrors(s) ==
    IF "info" \notin DOMAIN s
        THEN <<"Missing required field: 'info'">>
    ELSE AppendIf("title" \notin DOMAIN s.info,
                  "Missing required field: 'info.title'")
         \o AppendIf("version" \notin DOMAIN s.info,
                     "Missing required field: 'info.version'")

\* the `paths` check
PathsErrors(s) ==
    IF "paths" \notin DOMAIN s
        THEN <<"Missing required field: 'paths'">>
    ELSE IF s.paths = <<>>
        THEN <<"'paths' object is empty - at least one path is required">>
    ELSE <<>>

validate_structure(s) == OpenapiErrors(s) \o InfoErrors(s) \o PathsErrors(s)

(***************************************************************************)
(* validate_paths                                                          *)
(***************************************************************************)

\* validate_paths: operations
PathOperations == <<"get", "post", "put", "patch", "delete", "options", "head">>

\* errors.append calls of one `for method in operations` iteration
OperationErrors(method, path, path_item) ==
    IF method \notin DOMAIN path_item THEN <<>>
    ELSE LET operation == path_item[method] IN
         IF "responses" \notin DOMAIN operation
            THEN <<Upper(method) \o " " \o path \o ": Missing 'responses'">>
         ELSE IF operation.responses = <<>>
            THEN <<Upper(method) \o " " \o path \o ": 'responses' is empty">>
         ELSE <<>>

\* warnings.append calls of one `for method in operations` iteration
OperationWarnings(method, path, path_item) ==
    IF method \notin DOMAIN path_item THEN <<>>
    ELSE LET operation == path_item[method] IN
         AppendIf("summary" \notin DOMAIN operation
                     /\ "description" \notin DOMAIN operation,
                  Upper(method) \o " " \o path
                     \o ": Missing 'summary' or 'description'")
         \o AppendIf("operationId" \notin DOMAIN operation,
                     Upper(method) \o " " \o path
                        \o ": Missing 'operationId' (recommended)")

\* errors.append calls of one `for path, path_item in paths.items()` iteration
PathErrors(path, path_item) ==
    AppendIf(~StartsWith(path, "/"), "Path '" \o path \o "' must start with '/'")
    \o Flatten([m \in 1..Len(PathOperations) |->
                   OperationErrors(PathOperations[m], path, path_item)])

\* warnings.append calls of one `for path, path_item in paths.items()` iteration
PathWarnings(path, path_item) ==
    AppendIf(\A m \in 1..Len(PathOperations) :
                 PathOperations[m] \notin DOMAIN path_item,
             "Path '" \o path \o "' has no operations defined")
    \o Flatten([m \in 1..Len(PathOperations) |->
                   OperationWarnings(PathOperations[m], path, path_item)])

validate_paths(s) ==
    LET paths == GetSeq(s, "paths") IN
    Flatten([i \in 1..Len(paths) |-> PathErrors(paths[i][1], paths[i][2])])
    \o Flatten([i \in 1..Len(paths) |-> PathWarnings(paths[i][1], paths[i][2])])

(***************************************************************************)
(* validate_schemas                                                        *)
(***************************************************************************)

\* warnings.append calls of one `for schema_name, schema in schemas.items()`
SchemaWarnings(schema_name, schema) ==
    AppendIf(/\ "type" \notin DOMAIN schema
             /\ "$ref" \notin DOMAIN schema
             /\ "allOf" \notin DOMAIN schema
             /\ "oneOf" \notin DOMAIN schema
             /\ "anyOf" \notin DOMAIN schema,
             "Schema '" \o schema_name \o "': Missing 'type' property")
    \o AppendIf("description" \notin DOMAIN schema,
                "Schema '" \o schema_name \o "': Missing 'description' (recommended)")
    \o AppendIf(/\ "type" \in DOMAIN schema
                /\ schema.type = "object"
                /\ "properties" \notin DOMAIN schema,
                "Schema '" \o schema_name
                   \o "': Object type but no 'properties' defined")

\* the errors list of validate_schemas is never appended to
validate_schemas(s) ==
    LET components == GetDict(s, "components")
        schemas == GetSeq(components, "schemas")
    IN  <<>> \o Flatten([i \in 1..Len(schemas) |->
                            SchemaWarnings(schemas[i][1], schemas[i][2])])

(***************************************************************************)
(* validate_security                                                       *)
(***************************************************************************)

\* errors.append calls of one `for scheme_name, scheme in ...items()`
SchemeErrors(scheme_name, scheme) ==
    AppendIf("type" \notin DOMAIN scheme,
             "Security scheme '" \o scheme_name \o "': Missing 'type'")
    \o (IF "type" \notin DOMAIN scheme THEN <<>>
        ELSE IF scheme.type = "http" THEN
            AppendIf("scheme" \notin DOMAIN scheme,
                     "Security scheme '" \o scheme_name
                        \o "': HTTP type requires 'scheme'")
        ELSE IF scheme.type = "apiKey" THEN
            AppendIf("name" \notin DOMAIN scheme,
                     "Security scheme '" \o scheme_name
                        \o "': apiKey type requires 'name'")
            \o AppendIf("in" \notin DOMAIN scheme,
                        "Security scheme '" \o scheme_name
                           \o "': apiKey type requires 'in'")
        ELSE IF scheme.type = "oauth2" THEN
            AppendIf("flows" \notin DOMAIN scheme,
                     "Security scheme '" \o scheme_name
                        \o "': oauth2 type requires 'flows'")
        ELSE <<>>)

validate_security(s) ==
    LET components == GetDict(s, "components")
        security_schemes == GetSeq(components, "securitySchemes")
    IN  Flatten([i \in 1..Len(security_schemes) |->
                    SchemeErrors(security_schemes[i][1], security_schemes[i][2])])
        \o AppendIf(security_schemes = <<>>,
             "No security schemes defined (consider adding authentication)")

(***************************************************************************)
(* validate_examples                                                       *)
(***************************************************************************)

\* validate_examples: operations
ExampleOperations == <<"get", "post", "put", "patch", "delete">>

\* `'example' not in media_type_obj and 'examples' not in media_type_obj`
LacksExample(media_type_obj) ==
    "example" \notin DOMAIN media_type_obj /\ "examples" \notin DOMAIN media_type_obj

\* warnings of the `for media_type, media_type_obj in content.items()` loop
\* over a request body
RequestBodyWarnings(method, path, operation) ==
    IF "requestBody" \notin DOMAIN operation THEN <<>>
    ELSE LET content == GetSeq(operation.requestBody, "content") IN
         Flatten([k \in 1..Len(content) |->
                     AppendIf(LacksExample(content[k][2]),
                              Upper(method) \o " " \o path
                                 \o ": Request body missing example")])

\* warnings of the `for status_code, response in responses.items()` loop
ResponseWarnings(method, path, operation) ==
    LET responses == GetSeq(operation, "responses") IN
    Flatten([r \in 1..Len(responses) |->
        LET status_code == responses[r][1]
            content == GetSeq(responses[r][2], "content")
        IN  IF StartsWith(status_code, "2")
            THEN Flatten([k \in 1..Len(content) |->
                    AppendIf(LacksExample(content[k][2]),
                             Upper(method) \o " " \o path \o ": Response "
                                \o status_code \o " missing example")])
            ELSE <<>>])

\* warnings of one `for method in operations` iteration
ExampleWarnings(method, path, path_item) ==
    IF method \notin DOMAIN path_item THEN <<>>
    ELSE RequestBodyWarnings(method, path, path_item[method])
         \o ResponseWarnings(method, path, path_item[method])

validate_examples(s) ==
    LET paths == GetSeq(s, "paths") IN
    Flatten([i \in 1..Len(paths) |->
        Flatten([m \in 1..Len(ExampleOperations) |->
            ExampleWarnings(ExampleOperations[m], paths[i][1], paths[i][2])])])

(***************************************************************************)
(* validate_best_practices                                                 *)
(***************************************************************************)

\* re.findall(r'\{([^}]+)\}', path), scanning from position i: the
\* non-overlapping leftmost matches, each a '{', one or more characters
\* other than '}', and a '}'
RECURSIVE FindParams(_, _)
FindParams(path, i) ==
    LET open == IndexFrom(path, "{", i)
        close == IF open = 0 THEN 0 ELSE IndexFrom(path, "}", open + 1)
    IN  IF open = 0 \/ close = 0 THEN <<>>
        ELSE IF close = open + 1 THEN FindParams(path, open + 1)
        ELSE <<SubSeq(path, open + 1, close - 1)>> \o FindParams(path, close + 1)

\* `param.upper() == param or '_' in param`
ParamFlagged(param) == Upper(param) = param \/ Contains(param, "_")

\* warnings of the path-parameter block of one path
ParamWarnings(path) ==
    IF Contains(path, "{") /\ Contains(path, "}")
    THEN LET params == FindParams(path, 1) IN
         Flatten([k \in 1..Len(params) |->
                     AppendIf(ParamFlagged(params[k]),
                              "Path '" \o path \o "': Parameter '" \o params[k]
                                 \o "' should use camelCase")])
    ELSE <<>>

\* validate_best_practices: verbs
Verbs == <<"get", "create", "update", "delete", "fetch", "list", "add", "remove">>

\* warnings of the `for verb in verbs` loop of one path
VerbWarnings(path) ==
    LET path_parts == Split(Lower(path), "/") IN
    Flatten([v \in 1..Len(Verbs) |->
                AppendIf(InList(Verbs[v], path_parts),
                         "Path '" \o path
                            \o "': Avoid verbs in path (use HTTP methods instead)")])

\* warnings of one `for path in paths.keys()` iteration
PathConventionWarnings(path) ==
    ParamWarnings(path)
    \o AppendIf(EndsWith(path, "/") /\ path # "/",
                "Path '" \o path \o "': Avoid trailing slashes")
    \o VerbWarnings(path)

validate_best_practices(s) ==
    LET info == GetDict(s, "info")
        paths == GetSeq(s, "paths")
    IN  AppendIf("servers" \notin DOMAIN s,
                 "No 'servers' defined (recommended to specify base URLs)")
        \o AppendIf("tags" \notin DOMAIN s,
                    "No 'tags' defined (recommended for API organization)")
        \o AppendIf("contact" \notin DOMAIN info,
                    "No contact information in 'info' (recommended)")
        \o AppendIf("license" \notin DOMAIN info,
                    "No license information in 'info' (consider adding)")
        \o Flatten([i \in 1..Len(paths) |-> PathConventionWarnings(paths[i][1])])

(***************************************************************************)
(* main: classification of each pass's messages, and the exit status       *)
(***************************************************************************)

\* [e for e in lst if keep(e)], one definition per filter of main
RECURSIVE StructureErrorFilter(_)
StructureErrorFilter(lst) ==
    IF lst = <<>> THEN <<>>
    ELSE AppendIf(Contains(Head(lst), "Missing required")
                     \/ Contains(Head(lst), "Unsupported"), Head(lst))
         \o StructureErrorFilter(Tail(lst))

RECURSIVE PathErrorFilter(_)
PathErrorFilter(lst) ==
    IF lst = <<>> THEN <<>>
    ELSE AppendIf(Contains(Head(lst), "Missing")
                     /\ Contains(Lower(Head(lst)), "required"), Head(lst))
         \o PathErrorFilter(Tail(lst))

RECURSIVE SchemaErrorFilter(_)
SchemaErrorFilter(lst) ==
    IF lst = <<>> THEN <<>>
    ELSE AppendIf(Contains(Lower(Head(lst)), "required"), Head(lst))
         \o SchemaErrorFilter(Tail(lst))

RECURSIVE SecurityErrorFilter(_)
SecurityErrorFilter(lst) ==
    IF lst = <<>> THEN <<>>
    ELSE AppendIf(Contains(Head(lst), "Missing")
                     /\ Contains(Head(lst), "requires"), Head(lst))
         \o SecurityErrorFilter(Tail(lst))

\* NotInErrors as `not all_errors`: warnings kept only while no error exists
NotInErrorsNone(e, errs) == errs = <<>>

\* the condition of `[e for e in issues if e not in all_errors]`
NotInErrors(e, errs) == ~InList(e, errs)

\* [e for e in issues if e not in all_errors]
RECURSIVE WarningFilter(_, _)
WarningFilter(lst, errs) ==
    IF lst = <<>> THEN <<>>
    ELSE AppendIf(NotInErrors(Head(lst), errs), Head(lst))
         \o WarningFilter(Tail(lst), errs)

\* ReportExit with sys.exit(1) reached for warnings as well
ReportExitOnAnyFinding(errs, warns) ==
    IF errs = <<>> /\ warns = <<>> THEN 0 ELSE 1

\* the exit status chosen by the report block: sys.exit(1) in the final else,
\* falling off the end of main (status 0) otherwise
ReportExit(errs, warns) ==
    IF errs = <<>> /\ warns = <<>> THEN 0
    ELSE IF errs = <<>> THEN 0
    ELSE 1

(***************************************************************************)
(* Input documents.  Every document is built from Python dict literals;    *)
(* the families below vary one concern each around a document that has no  *)
(* finding at all.                                                         *)
(***************************************************************************)

\* d with d[k] = v
With(d, k, v) == [x \in DOMAIN d \cup {k} |-> IF x = k THEN v ELSE d[x]]

\* d with key k deleted
Without(d, k) == [x \in DOMAIN d \ {k} |-> d[x]]

\* the dicts that are d, or d with key k bound to one of vs
Optional(d, k, vs) == {d} \cup {With(d, k, v) : v \in vs}

\* the sequences over S of length lo..hi whose first components (the keys of
\* an ordered mapping) are pairwise distinct
Mappings(S, lo, hi) ==
    {m \in UNION {[1..n -> S] : n \in lo..hi} :
        \A i, j \in 1..Len(m) : i # j => m[i][1] # m[j][1]}

MaxPaths == 2
MaxSchemes == 2
MaxSchemas == 2
MaxSegments == 2

WithExample == [example |-> "x"]
Json(media_type_obj) == <<<<"application/json", media_type_obj>>>>
CleanResponses == <<<<"200", [content |-> Json(WithExample)]>>>>
CleanOperation ==
    [responses |-> CleanResponses, summary |-> "List users", operationId |-> "listUsers"]
CleanInfo == [title |-> "API", version |-> "1.0", contact |-> "c", license |-> "l"]
CleanSchemes == <<<<"bearerAuth", [type |-> "http", scheme |-> "bearer"]>>>>
CleanPaths == <<<<"/users", [get |-> CleanOperation]>>>>
CleanDoc ==
    [openapi |-> "3.0.3", info |-> CleanInfo, paths |-> CleanPaths,
     components |-> [securitySchemes |-> CleanSchemes],
     servers |-> "s", tags |-> "t"]

\* structure: the top-level fields
Versions == {"3.0.3", "3.0", "2.0", "3.1.0", "3"}
Infos ==
    {i2 : i2 \in UNION {Optional(i1, "version", {"1.0"}) :
                           i1 \in Optional([contact |-> "c", license |-> "l"],
                                           "title", {"API"})}}
    \cup {EmptyDict, [title |-> "API", version |-> "1.0"]}
StructureDocs ==
    {d4 : d4 \in UNION {Optional(d3, "servers", {"s"}) :
            d3 \in UNION {Optional(d2, "paths", {<<>>, CleanPaths}) :
               d2 \in UNION {Optional(d1, "info", Infos) :
                  d1 \in Optional(Without(Without(Without(Without(CleanDoc,
                                     "openapi"), "info"), "paths"), "servers"),
                                  "openapi", Versions)}}}}

\* paths and operations
ResponsesChoices ==
    {<<>>, CleanResponses,
     <<<<"200", [content |-> Json(EmptyDict)]>>>>,
     <<<<"201", [content |-> Json([examples |-> "x"])]>>,
       <<"404", [content |-> Json(EmptyDict)]>>>>,
     <<<<"204", EmptyDict>>>>}
RequestBodies ==
    {[content |-> Json(EmptyDict)], [content |-> Json(WithExample)], EmptyDict}
Operations ==
    {o4 : o4 \in UNION {Optional(o3, "requestBody", RequestBodies) :
            o3 \in UNION {Optional(o2, "operationId", {"op"}) :
               o2 \in UNION {Optional(o1, "summary", {"s"}) :
                  o1 \in Optional(EmptyDict, "responses", ResponsesChoices)}}}}
    \cup {[description |-> "d", responses |-> CleanResponses]}
PathItems ==
    {EmptyDict}
    \cup {With(EmptyDict, m, o) : m \in {"get", "post", "head", "options"},
                                   o \in Operations}
PathKeys == {"/users", "/required", "users", "/Missing/Required"}
SmallEntries ==
    {<<"/users", [get |-> CleanOperation, head |-> EmptyDict]>>,
     <<"/required", [post |-> [responses |-> <<>>]]>>,
     <<"/orders", [delete |-> [summary |-> "s"], options |-> CleanOperation]>>}
PathDocs ==
    {With(CleanDoc, "paths", <<<<k, item>>>>) : k \in PathKeys, item \in PathItems}
    \cup {With(CleanDoc, "paths", m) : m \in Mappings(SmallEntries, 2, MaxPaths)}

\* path conventions: keys built from segments
Segments ==
    {"users", "get", "List", "getUsers", "delete",
     "{user_id}", "{ID}", "{userId}", "{1}", "{id}.{A_B}", ""}
RECURSIVE JoinSegments(_)
JoinSegments(segs) ==
    IF segs = <<>> THEN "" ELSE "/" \o Head(segs) \o JoinSegments(Tail(segs))
ConventionDocs ==
    {With(CleanDoc, "paths", <<<<JoinSegments(segs), [get |-> CleanOperation]>>>>) :
        segs \in UNION {[1..n -> Segments] : n \in 1..MaxSegments}}

\* component schemas
Schemas ==
    {EmptyDict, [type |-> "object"], [type |-> "object", properties |-> "p"],
     [type |-> "string", description |-> "d"], [allOf |-> "a", description |-> "d"],
     With([description |-> "d"], "$ref", "r")}
SchemaDocs ==
    {With(CleanDoc, "components",
          [securitySchemes |-> CleanSchemes, schemas |-> m]) :
        m \in Mappings({"User", "RequiredFields", "unrequired"} \X Schemas,
                       0, MaxSchemas)}

\* security schemes
Schemes ==
    {EmptyDict, [type |-> "apiKey"], [type |-> "apiKey", name |-> "n"],
     [type |-> "apiKey", name |-> "n", in |-> "header"],
     [type |-> "http"], [type |-> "http", scheme |-> "basic"],
     [type |-> "oauth2"], [type |-> "oauth2", flows |-> "f"],
     [type |-> "openIdConnect"]}
SecurityDocs ==
    {With(CleanDoc, "components", [securitySchemes |-> m]) :
        m \in Mappings({"myApiKey", "Missing"} \X Schemes, 0, MaxSchemes)}
    \cup {Without(CleanDoc, "components"), With(CleanDoc, "components", EmptyDict)}

\* findings from several passes in one document
MixedEntries ==
    SmallEntries \cup {<<"/get/list/{ID}", [get |-> CleanOperation]>>}
MixedComponents ==
    {EmptyDict,
     [schemas |-> <<<<"RequiredFields", EmptyDict>>, <<"User", [type |-> "object"]>>>>,
      securitySchemes |-> <<<<"Missing", [type |-> "apiKey"]>>, <<"k", EmptyDict>>>>],
     [schemas |-> <<<<"User", EmptyDict>>>>, securitySchemes |-> CleanSchemes]}
MixedDocs ==
    {With(With(With(CleanDoc, "openapi", v), "paths", m), "components", c) :
        v \in {"3.0.3", "2.0"}, m \in Mappings(MixedEntries, 1, MaxPaths),
        c \in MixedComponents}

Documents ==
    StructureDocs \cup PathDocs \cup ConventionDocs \cup SchemaDocs
        \cup SecurityDocs \cup MixedDocs

Files ==
    {[parses |-> TRUE, doc |-> d, why |-> ""] : d \in Documents}
    \cup {[parses |-> FALSE, doc |-> EmptyDict, why |-> w] :
             w \in {"[Errno 2] No such file or directory: 'api.yaml'",
                    "Expecting value: line 1 column 1 (char 0)"}}

(***************************************************************************)
(* main, from the point where a spec file argument has been given          *)
(***************************************************************************)

Init ==
    /\ file \in Files
    /\ pc = "load"
    /\ spec = EmptyDict
    /\ load_errors = <<>>
    /\ all_errors = <<>>
    /\ all_warnings = <<>>
    /\ structure_errors = <<>>
    /\ path_issues = <<>>
    /\ schema_issues = <<>>
    /\ security_issues = <<>>
    /\ example_warnings = <<>>
    /\ best_practice_warnings = <<>>
    /\ ran = <<>>
    /\ exit_status = -1

\* spec, load_errors = load_spec(spec_file); if load_errors: ... sys.exit(1)
Load ==
    /\ pc = "load"
    /\ LET loaded == load_spec(file) IN
       /\ spec' = loaded.spec
       /\ load_errors' = loaded.errors
       /\ pc' = IF loaded.errors # <<>> THEN "done" ELSE "structure"
       /\ exit_status' = IF loaded.errors # <<>> THEN 1 ELSE exit_status
    /\ UNCHANGED <<file, all_errors, all_warnings, structure_errors, path_issues,
                   schema_issues, security_issues, example_warnings,
                   best_practice_warnings, ran>>

RunStructure ==
    /\ pc = "structure"
    /\ structure_errors' = validate_structure(spec)
    /\ all_errors' = all_errors \o StructureErrorFilter(structure_errors')
    /\ all_warnings' = all_warnings \o WarningFilter(structure_errors', all_errors')
    /\ ran' = Append(ran, "structure")
    /\ pc' = "paths"
    /\ UNCHANGED <<file, spec, load_errors, path_issues, schema_issues,
                   security_issues, example_warnings, best_practice_warnings,
                   exit_status>>

RunPaths ==
    /\ pc = "paths"
    /\ path_issues' = validate_paths(spec)
    /\ all_errors' = all_errors \o PathErrorFilter(path_issues')
    /\ all_warnings' = all_warnings \o WarningFilter(path_issues', all_errors')
    /\ ran' = Append(ran, "paths")
    /\ pc' = "schemas"
    /\ UNCHANGED <<file, spec, load_errors, structure_errors, schema_issues,
                   security_issues, example_warnings, best_practice_warnings,
                   exit_status>>

RunSchemas ==
    /\ pc = "schemas"
    /\ schema_issues' = validate_schemas(spec)
    /\ all_errors' = all_errors \o SchemaErrorFilter(schema_issues')
    /\ all_warnings' = all_warnings \o WarningFilter(schema_issues', all_errors')
    /\ ran' = Append(ran, "schemas")
    /\ pc' = "security"
    /\ UNCHANGED <<file, spec, load_errors, structure_errors, path_issues,
                   security_issues, example_warnings, best_practice_warnings,
                   exit_status>>

RunSecurity ==
    /\ pc = "security"
    /\ security_issues' = validate_security(spec)
    /\ all_errors' = all_errors \o SecurityErrorFilter(security_issues')
    /\ all_warnings' = all_warnings \o WarningFilter(security_issues', all_errors')
    /\ ran' = Append(ran, "security")
    /\ pc' = "examples"
    /\ UNCHANGED <<file, spec, load_errors, structure_errors, path_issues,
                   schema_issues, example_warnings, best_practice_warnings,
                   exit_status>>

RunExamples ==
    /\ pc = "examples"
    /\ example_warnings' = validate_examples(spec)
    /\ all_warnings' = all_warnings \o example_warnings'
    /\ ran' = Append(ran, "examples")
    /\ pc' = "best_practices"
    /\ UNCHANGED <<file, spec, load_errors, all_errors, structure_errors,
                   path_issues, schema_issues, security_issues,
                   best_practice_warnings, exit_status>>

RunBestPractices ==
    /\ pc = "best_practices"
    /\ best_practice_warnings' = validate_best_practices(spec)
    /\ all_warnings' = all_warnings \o best_practice_warnings'
    /\ ran' = Append(ran, "best_practices")
    /\ pc' = "report"
    /\ UNCHANGED <<file, spec, load_errors, all_errors, structure_errors,
                   path_issues, schema_issues, security_issues, example_warnings,
                   exit_status>>

\* the report block: the process ends with the status it selects
Report ==
    /\ pc = "report"
    /\ exit_status' = ReportExit(all_errors, all_warnings)
    /\ pc' = "done"
    /\ UNCHANGED <<file, spec, load_errors, all_errors, all_warnings,
                   structure_errors, path_issues, schema_issues, security_issues,
                   example_warnings, best_practice_warnings, ran>>

Next ==
    \/ Load
    \/ RunStructure
    \/ RunPaths
    \/ RunSchemas
    \/ RunSecurity
    \/ RunExamples
    \/ RunBestPractices
    \/ Report

Spec == Init /\ [][Next]_vars

(***************************************************************************)
(* Properties                                                              *)
(***************************************************************************)

\* the run has loaded a document and reached its end
Finished == pc = "done" /\ file.parses

\* the number of positions of lst that hold e
Count(e, lst) == Cardinality({k \in 1..Len(lst) : lst[k] = e})

\* the set of elements of lst
Elements(lst) == {lst[k] : k \in 1..Len(lst)}

\* the findings of the six passes, in pass order and emission order
Emitted ==
    structure_errors \o path_issues \o schema_issues \o security_issues
        \o example_warnings \o best_practice_warnings

\* a occurs in b as a subsequence (same elements, same relative order)
RECURSIVE IsSubsequence(_, _)
IsSubsequence(a, b) ==
    IF a = <<>> THEN TRUE
    ELSE IF b = <<>> THEN FALSE
    ELSE IF Head(a) = Head(b) THEN IsSubsequence(Tail(a), Tail(b))
    ELSE IsSubsequence(a, Tail(b))

MissingField(name) == "Missing required field: '" \o name \o "'"
EmptyPathsMessage == "'paths' object is empty - at least one path is required"
DocPaths == GetSeq(spec, "paths")
DocSchemes == GetSeq(GetDict(spec, "components"), "securitySchemes")

C2_AsStated ==
    Finished =>
        /\ "paths" \notin DOMAIN spec =>
              InList(MissingField("paths"), all_errors) /\ exit_status = 1
        /\ ("info" \notin DOMAIN spec \/ "title" \notin DOMAIN GetDict(spec, "info")) =>
              InList(MissingField("info.title"), all_errors) /\ exit_status = 1
        /\ ("info" \notin DOMAIN spec \/ "version" \notin DOMAIN GetDict(spec, "info")) =>
              InList(MissingField("info.version"), all_errors) /\ exit_status = 1

\* C2 (amended): a document that lacks paths gets the error naming paths; a
\* document whose info is present but lacks title or version gets the error
\* naming info.title or info.version; a document with no info at all gets
\* the single error naming info and none naming its subfields. Each error
\* appears once, whatever the other structure checks report, and the
\* outcome is invalid.
C2_StructureErrors ==
    Finished =>
        /\ Count(MissingField("paths"), all_errors)
              = (IF "paths" \notin DOMAIN spec THEN 1 ELSE 0)
        /\ Count(MissingField("info"), all_errors)
              = (IF "info" \notin DOMAIN spec THEN 1 ELSE 0)
        /\ Count(MissingField("info.title"), all_errors)
              = (IF "info" \in DOMAIN spec /\ "title" \notin DOMAIN spec.info
                 THEN 1 ELSE 0)
        /\ Count(MissingField("info.version"), all_errors)
              = (IF "info" \in DOMAIN spec /\ "version" \notin DOMAIN spec.info
                 THEN 1 ELSE 0)
        /\ Count(MissingField("openapi"), all_errors)
              = (IF "openapi" \notin DOMAIN spec THEN 1 ELSE 0)
        /\ ("paths" \notin DOMAIN spec \/ "info" \notin DOMAIN spec
               \/ "title" \notin DOMAIN GetDict(spec, "info")
               \/ "version" \notin DOMAIN GetDict(spec, "info")) => exit_status = 1

\* C2 witness: openapi, info.title, info.version and paths all missing, and
\* all four errors reported in the one run
C2_AllMissingTogether ==
    /\ Finished
    /\ "openapi" \notin DOMAIN spec /\ "paths" \notin DOMAIN spec
    /\ "info" \in DOMAIN spec
    /\ "title" \notin DOMAIN spec.info /\ "version" \notin DOMAIN spec.info
    /\ Len(StructureErrorFilter(structure_errors)) = 4
    /\ exit_status = 1

\* C3: a document whose paths is present but empty is invalid (exit status
\* 1), by an error other than the missing-paths error.
C3_EmptyPathsInvalid ==
    (Finished /\ "paths" \in DOMAIN spec /\ spec.paths = <<>>) =>
        /\ exit_status = 1
        /\ InList(EmptyPathsMessage, all_errors)
        /\ ~InList(MissingField("paths"), all_errors)

\* a finding about the responses of the operation `method` of `path`
NamesResponsesOf(e, method, path) ==
    StartsWith(e, Upper(method) \o " " \o path \o ": ") /\ Contains(e, "'responses'")

\* C4: every operation under a recognized method whose responses is absent
\* or empty has exactly one error naming its method and path.
C4_MissingResponsesIsError ==
    Finished =>
        \A i \in 1..Len(DocPaths) : \A m \in 1..Len(PathOperations) :
            LET path == DocPaths[i][1]
                item == DocPaths[i][2]
                method == PathOperations[m]
            IN  (method \in DOMAIN item
                   /\ GetSeq(item[method], "responses") = <<>>) =>
                Cardinality({k \in 1..Len(all_errors) :
                    NamesResponsesOf(all_errors[k], method, path)}) = 1

SchemeMessage(name, text) == "Security scheme '" \o name \o "': " \o text

\* C5: per declared scheme, a missing type, a missing scheme (http), a
\* missing name and a missing in (apiKey, each on its own) and a missing
\* flows (oauth2) are errors and make the document invalid; no scheme at
\* all is a warning only.
C5_SchemeErrors ==
    Finished =>
        /\ \A i \in 1..Len(DocSchemes) :
            LET name == DocSchemes[i][1]
                scheme == DocSchemes[i][2]
                type == IF "type" \in DOMAIN scheme THEN scheme.type ELSE ""
                Reported(cond, text) ==
                    cond => InList(SchemeMessage(name, text), all_errors)
                                /\ exit_status = 1
            IN  /\ Reported("type" \notin DOMAIN scheme, "Missing 'type'")
                /\ Reported(type = "http" /\ "scheme" \notin DOMAIN scheme,
                            "HTTP type requires 'scheme'")
                /\ Reported(type = "apiKey" /\ "name" \notin DOMAIN scheme,
                            "apiKey type requires 'name'")
                /\ Reported(type = "apiKey" /\ "in" \notin DOMAIN scheme,
                            "apiKey type requires 'in'")
                /\ Reported(type = "oauth2" /\ "flows" \notin DOMAIN scheme,
                            "oauth2 type requires 'flows'")
        /\ DocSchemes = <<>> =>
              /\ InList("No security schemes defined (consider adding authentication)",
                        all_warnings)
              /\ \A k \in 1..Len(security_issues) :
                    ~InList(security_issues[k], all_errors)

VerbMessage(path) ==
    "Path '" \o path \o "': Avoid verbs in path (use HTTP methods instead)"

\* some segment of the path, lower-cased, is one of the verbs
HasVerbSegment(path) ==
    \E seg \in Elements(Split(Lower(path), "/")) : seg \in Elements(Verbs)

\* C6: the best-practices check emits exactly one verb warning for a path
\* with at least one verb segment, and none for any other path.
C6_OneVerbWarningPerPath ==
    Finished =>
        \A i \in 1..Len(DocPaths) :
            Count(VerbMessage(DocPaths[i][1]), best_practice_warnings)
                = (IF HasVerbSegment(DocPaths[i][1]) THEN 1 ELSE 0)

ParamMessage(path, param) ==
    "Path '" \o path \o "': Parameter '" \o param \o "' should use camelCase"

\* the {param} placeholders of a path: the positions of a '{' and the next
\* '}' with a non-empty, brace-free name between them
Placeholders(path) ==
    {o \in (1..Len(path)) \X (1..Len(path)) :
        /\ SubSeq(path, o[1], o[1]) = "{"
        /\ SubSeq(path, o[2], o[2]) = "}"
        /\ o[2] > o[1] + 1
        /\ \A k \in (o[1] + 1)..(o[2] - 1) : SubSeq(path, k, k) \notin {"{", "}"}}
PlaceholderName(path, o) == SubSeq(path, o[1] + 1, o[2] - 1)

\* the name has a letter and all its letters are upper-case
IsUpperCase(param) == Upper(param) = param /\ Lower(param) # param

\* C7: for every placeholder of every path the best-practices check emits
\* exactly one convention warning if its name is entirely upper-case or
\* contains an underscore, and none otherwise.
C7_ParamConvention ==
    Finished =>
        \A i \in 1..Len(DocPaths) :
            LET path == DocPaths[i][1] IN
            \A o \in Placeholders(path) :
                LET param == PlaceholderName(path, o)
                    same == {q \in Placeholders(path) : PlaceholderName(path, q) = param}
                IN  Count(ParamMessage(path, param), best_practice_warnings)
                        = (IF IsUpperCase(param) \/ Contains(param, "_")
                           THEN Cardinality(same) ELSE 0)

\* C8: for every operation under any of the seven recognized methods, every
\* media type without example(s) of a 2xx response, and of the request
\* body, gets a warning from the example check.
C8_ExamplesForEveryMethod ==
    Finished =>
        \A i \in 1..Len(DocPaths) : \A m \in 1..Len(PathOperations) :
            LET path == DocPaths[i][1]
                item == DocPaths[i][2]
                method == PathOperations[m]
            IN  method \in DOMAIN item =>
                LET operation == item[method]
                    responses == GetSeq(operation, "responses")
                    body == GetSeq(GetDict(operation, "requestBody"), "content")
                IN  /\ \A r \in 1..Len(responses) :
                        LET content == GetSeq(responses[r][2], "content") IN
                        (StartsWith(responses[r][1], "2")
                            /\ \E k \in 1..Len(content) : LacksExample(content[k][2]))
                        => InList(Upper(method) \o " " \o path \o ": Response "
                                     \o responses[r][1] \o " missing example",
                                  example_warnings)
                    /\ (\E k \in 1..Len(body) : LacksExample(body[k][2]))
                        => InList(Upper(method) \o " " \o path
                                     \o ": Request body missing example",
                                  example_warnings)

\* C9: after the six passes every emitted finding is in exactly one of
\* all_errors and all_warnings with its multiplicity, so the two lengths add
\* up to the number of findings emitted, and each list keeps pass order and
\* emission order.
C9_NothingDroppedOrDuplicated ==
    Finished =>
        /\ Len(all_errors) + Len(all_warnings) = Len(Emitted)
        /\ \A e \in Elements(Emitted) \cup Elements(all_errors) \cup Elements(all_warnings) :
              /\ Count(e, all_errors) + Count(e, all_warnings) = Count(e, Emitted)
              /\ Count(e, all_errors) = 0 \/ Count(e, all_warnings) = 0
        /\ IsSubsequence(all_errors, Emitted)
        /\ IsSubsequence(all_warnings, Emitted)

\* C9 witness: errors from two passes have accumulated before later passes
\* are filtered, four passes have findings, and one warning occurs twice
C9_AccumulatedAcrossPasses ==
    /\ Finished
    /\ StructureErrorFilter(structure_errors) # <<>>
    /\ PathErrorFilter(path_issues) # <<>>
    /\ schema_issues # <<>> /\ security_issues # <<>>
    /\ \E e \in Elements(all_warnings) : Count(e, all_warnings) = 2
    /\ \E k \in 1..Len(security_issues) : InList(security_issues[k], all_warnings)

\* a finding of one of the kinds the path and schema checks list as warnings
IsAdvisory(e) ==
    \/ EndsWith(e, ": Missing 'operationId' (recommended)")
    \/ EndsWith(e, ": Missing 'summary' or 'description'")
    \/ StartsWith(e, "Path '") /\ EndsWith(e, "' has no operations defined")
    \/ /\ StartsWith(e, "Schema '")
       /\ \/ EndsWith(e, "': Missing 'description' (recommended)")
          \/ EndsWith(e, "': Missing 'type' property")
          \/ EndsWith(e, "': Object type but no 'properties' defined")

\* C10: the warning conditions of the path and schema checks are never
\* classified as errors, whatever path or schema name the message embeds,
\* so a document with only such findings is never invalid.
C10_AdvisoryNeverError ==
    Finished =>
        /\ \A k \in 1..Len(all_errors) : ~IsAdvisory(all_errors[k])
        /\ (\A k \in 1..Len(Emitted) : IsAdvisory(Emitted[k])) => exit_status = 0

====
